---- MODULE Spec2Model ----
(***************************************************************************)
(* Cascaded shape regression (facealignment.py): the training loop         *)
(* cascaded_regression, the replay loop regression_predict, and the        *)
(* module-level shape prior average_points.                                *)
(*                                                                         *)
(* Numbers are exact rationals <<n, d>> (d > 0, lowest terms), so that     *)
(* the mean, the damped targets and the least-squares fit are computed     *)
(* and not assumed.  A shape is a sequence of 2-D points, a numpy array    *)
(* is a record [id, val]: id is the identity of the array object.          *)
(***************************************************************************)
EXTENDS Integers, Sequences, FiniteSets

\* ------------------------------------------------------------ bounds
MaxStages == 2      \* num_regressors ranges over 0..MaxStages
MaxSamples == 2     \* the loaded training set holds 1..MaxSamples samples
MaxImages == 2      \* a prediction batch holds 0..MaxImages images

\* ------------------------------------------------------------ rationals
Abs(n) == IF n < 0 THEN -n ELSE n

RECURSIVE Gcd(_, _)
Gcd(a, b) == IF b = 0 THEN a ELSE Gcd(b, a % b)

Rat(n, d) ==
    LET s == IF d < 0 THEN -1 ELSE 1
        g == Gcd(Abs(n), Abs(d))
    IN  <<(s * n) \div g, (s * d) \div g>>

Zero == <<0, 1>>
RInt(n) == <<n, 1>>
RAdd(a, b) == Rat(a[1] * b[2] + b[1] * a[2], a[2] * b[2])
RSub(a, b) == Rat(a[1] * b[2] - b[1] * a[2], a[2] * b[2])
RMul(a, b) == Rat(a[1] * b[1], a[2] * b[2])
RDiv(a, b) == Rat(a[1] * b[2], a[2] * b[1])
Floor(a) == a[1] \div a[2]

\* the sum of the first n entries of s
RECURSIVE RSumTo(_, _)
RSumTo(s, n) == IF n = 0 THEN Zero ELSE RAdd(RSumTo(s, n - 1), s[n])
RSum(s) == RSumTo(s, Len(s))

\* ------------------------------------------------------------ numpy arrays
None == [none |-> TRUE]

\* a - b and a + c*b on arrays of points, elementwise (numpy broadcasting)
ShapeSub(a, b) == [k \in 1..Len(a) |-> <<RSub(a[k][1], b[k][1]), RSub(a[k][2], b[k][2])>>]
ShapeAddScaled(a, c, b) ==
    [k \in 1..Len(a) |-> <<RAdd(a[k][1], RMul(c, b[k][1])), RAdd(a[k][2], RMul(c, b[k][2]))>>]

\* ndarray.flatten() of a (K,2) array: row-major, x1 y1 x2 y2 ...
Flatten(s) == [n \in 1..(2 * Len(s)) |-> s[(n + 1) \div 2][2 - (n % 2)]]
\* ndarray.reshape(-1, 2) of a flat vector
Reshape2(v) == [k \in 1..(Len(v) \div 2) |-> <<v[2 * k - 1], v[2 * k]>>]
\* c * v for a flat vector
VecScale(c, v) == [n \in 1..Len(v) |-> RMul(c, v[n])]

\* (faulty variant: the first shape instead of the mean)
MeanFirstOnly(shapes) == shapes[1]
\* np.mean(arr, axis=0) over a non-empty array of shapes
MeanShape(shapes) ==
    [k \in 1..Len(shapes[1]) |->
        <<RDiv(RSum([n \in 1..Len(shapes) |-> shapes[n][k][1]]), RInt(Len(shapes))),
          RDiv(RSum([n \in 1..Len(shapes) |-> shapes[n][k][2]]), RInt(Len(shapes)))>>]

\* ------------------------------------------------------------ descriptors
\* compute_descriptors: one descriptor per keypoint, a deterministic function
\* of the image and of where the keypoint lies in it.  An image is a small
\* texture number; the descriptor of a keypoint is one number.
KeypointDescriptor(img, p) == RInt((img + Floor(p[1]) + 2 * Floor(p[2])) % 3)
compute_descriptors(img, points) == [k \in 1..Len(points) |-> <<KeypointDescriptor(img, points[k])>>]
\* descriptors.flatten()
FlattenDesc(desc) == [k \in 1..Len(desc) |-> desc[k][1]]

\* ------------------------------------------------------------ LinearRegression
\* Ordinary least squares with intercept on two features, minimum-norm
\* when the centred design matrix is rank deficient (scipy lstsq).
ColMean(rows, c) == RDiv(RSum([n \in 1..Len(rows) |-> rows[n][c]]), RInt(Len(rows)))
\* sum over the rows of A[n][a] * B[n][b]
Dot(A, a, B, b) == RSum([n \in 1..Len(A) |-> RMul(A[n][a], B[n][b])])

\* the coefficient of feature a, given the Gram matrix g of the centred features and
\* the cross products b1, b2 of the two centred features with one centred output
Coef(a, g11, g12, g22, det, b1, b2) ==
    IF det # Zero
    THEN IF a = 1 THEN RDiv(RSub(RMul(g22, b1), RMul(g12, b2)), det)
                  ELSE RDiv(RSub(RMul(g11, b2), RMul(g12, b1)), det)
    ELSE IF RAdd(g11, g22) # Zero
    THEN RDiv(IF a = 1 THEN b1 ELSE b2, RAdd(g11, g22))
    ELSE Zero

Intercept(ym, xm, c1, c2) == RSub(ym, RAdd(RMul(xm[1], c1), RMul(xm[2], c2)))

\* the two coefficients of one output
FitOutput(g11, g12, g22, det, b1, b2) ==
    <<Coef(1, g11, g12, g22, det, b1, b2), Coef(2, g11, g12, g22, det, b1, b2)>>

\* Only({ e(v) : v \in {x} }) is e(x) with x computed once; Concrete(f) is the
\* sequence f with its entries computed.
Only(S) == CHOOSE v \in S : TRUE
Concrete(f) == SubSeq(f, 1, Len(f))

FitSolve(Xc, Yc, xm, ym, g11, g12, g22) ==
    Only({ Only({ [coef |-> <<[o \in 1..Len(ym) |-> sol[o][1]], [o \in 1..Len(ym) |-> sol[o][2]]>>,
                   intercept |-> [o \in 1..Len(ym) |->
                                    Intercept(ym[o], xm, sol[o][1], sol[o][2])]] :
                  sol \in {Concrete([o \in 1..Len(ym) |->
                              FitOutput(g11, g12, g22, det, Dot(Xc, 1, Yc, o), Dot(Xc, 2, Yc, o))])} }) :
           det \in {RSub(RMul(g11, g22), RMul(g12, g12))} })

FitCentred(X, Y, xm, ym) ==
    Only({ Only({ FitSolve(Xc, Yc, xm, ym, g11, g12, g22) :
                  g11 \in {Dot(Xc, 1, Xc, 1)}, g12 \in {Dot(Xc, 1, Xc, 2)},
                  g22 \in {Dot(Xc, 2, Xc, 2)} }) :
           Xc \in {Concrete([n \in 1..Len(X) |->
                      <<RSub(X[n][1], xm[1]), RSub(X[n][2], xm[2])>>])},
           Yc \in {Concrete([n \in 1..Len(Y) |->
                      Concrete([o \in 1..Len(ym) |-> RSub(Y[n][o], ym[o])])])} })

\* model.fit(x_train, y_train)
Fit(X, Y) ==
    Only({ FitCentred(X, Y, xm, ym) :
           xm \in {<<ColMean(X, 1), ColMean(X, 2)>>},
           ym \in {Concrete([o \in 1..Len(Y[1]) |-> ColMean(Y, o)])} })

\* model.predict(x_feat) for one row
Predict(model, x) ==
    [o \in 1..Len(model.intercept) |->
        RAdd(model.intercept[o],
             RAdd(RMul(x[1], model.coef[1][o]), RMul(x[2], model.coef[2][o])))]

\* ------------------------------------------------------------ code fragments
\* (faulty variant: the same array object, no copy)
ArrayAlias(obj, id) == obj
\* average_points.copy(): a new array object holding the same values
ArrayCopy(obj, id) == [id |-> id, val |-> obj.val]

\* lines 116, 119: damping_factors[i] * (train_points[j] - predicted_train_points[j]).flatten()
TrainTarget(d, gt, cur) == VecScale(d, Flatten(ShapeSub(gt, cur)))

\* lines 115, 118 and 132, 134: descriptors.flatten() at the current prediction
Features(img, cur) == FlattenDesc(compute_descriptors(img, cur))

\* (faulty variant: the raw delta is added)
TrainUpdateUndamped(cur, d, delta) == ShapeAddScaled(cur, <<1, 1>>, delta)
\* line 138: predicted_train_points[k] + damping_factors[i] * delta
TrainUpdate(cur, d, delta) == ShapeAddScaled(cur, d, delta)

\* (faulty variant: the raw delta is added)
PredictUpdateUndamped(cur, d, delta) == ShapeAddScaled(cur, <<1, 1>>, delta)
\* line 155: predicted_points + damping_factors[i] * delta
PredictUpdate(cur, d, delta) == ShapeAddScaled(cur, d, delta)

\* lines 149-155: one stage of the replay on one image
PredictStage(img, cur, regressor, d) ==
    PredictUpdate(cur, d, Reshape2(Predict(regressor, Features(img, cur))))

\* (faulty variant: the descriptors are taken at the first sample's current shape)
UpdatedShapeShared(imgs, shapes, k, mdl, d) ==
    TrainUpdate(shapes[k].val, d, Reshape2(Predict(mdl, Features(imgs[k], shapes[1].val))))
\* lines 131-138: the stage update of sample k, from its own image and current shape
UpdatedShape(imgs, shapes, k, mdl, d) ==
    TrainUpdate(shapes[k].val, d, Reshape2(Predict(mdl, Features(imgs[k], shapes[k].val))))

\* (faulty variants: a loop that runs at least once; a loop that stops one short)
StageLoopAtLeastOnce(i, n) == i >= n /\ i > 0
StageLoopDoneEarly(i, n) == i >= n - 1
\* `for i in range(n)`: the loop is over once i has reached n
StageLoopDone(i, n) == i >= n

\* (faulty variant: the loop stops with one index left)
SampleLoopDoneEarly(left) == Cardinality(left) <= 1
\* `for j in range(num_images)`: the loop is over once no index is left
SampleLoopDone(left) == left = {}

\* range() hands out the indices in increasing order
NextIndex(left) == CHOOSE j \in left : \A l \in left : j <= l

\* ------------------------------------------------------------ inputs
R0 == RInt(0)
R1 == RInt(1)
R2 == RInt(2)
R4 == RInt(4)
\* the samples a training file may hold: a texture and its two landmarks
SamplePool == { [img |-> 0, pts |-> <<<<R0, R0>>, <<R2, R0>>>>],
                [img |-> 1, pts |-> <<<<R2, R2>>, <<R4, R1>>>>],
                [img |-> 1, pts |-> <<<<R1, R0>>, <<R2, R4>>>>] }
Datasets == UNION { [1..k -> SamplePool] : k \in 1..MaxSamples }

\* damping schedules of every length 0..MaxStages+1: decreasing (1, 1/2, 1/3, ...)
\* as np.linspace makes them, and constant 1/2
DampingSchedules ==
    { [k \in 1..len |-> <<1, k>>] : len \in 0..(MaxStages + 1) }
    \cup { [k \in 1..len |-> <<1, 2>>] : len \in 0..(MaxStages + 1) }

\* the loaded test images (line 79)
TestImages == [n \in 1..MaxImages |-> n % 2]

\* ------------------------------------------------------------ state
VARIABLES
    train_images_preprocessed,  \* line 78: the loaded training images
    test_images_preprocessed,   \* line 79: the loaded test images
    train_points_resized,       \* line 82: the loaded ground-truth shapes (array objects)
    average_points,             \* line 85: the shape prior (array object)
    regressors_out,             \* module-level `regressors` (None before the first return)
    predictions_out,            \* module-level `predictions` (None before the first return)
    pc,                         \* where control is
    err,                        \* the exception that ended the call, or "none"
    num_regressors, damping_factors, train_images, train_points,   \* arguments
    predicted_train_points, regressors, x_train, y_train, model,   \* locals of cascaded_regression
    i,                          \* stage index
    left,                       \* indices the running inner loop has not yet handled
    updates,                    \* per sample: how many stage updates it has received
    images, predictions, predicted_points, m                       \* locals of regression_predict

globals == <<train_images_preprocessed, test_images_preprocessed, train_points_resized, average_points>>
outs == <<regressors_out, predictions_out>>
args == <<num_regressors, damping_factors, train_images, train_points>>
trainLocals == <<predicted_train_points, regressors, x_train, y_train, model, updates>>
predLocals == <<images, predictions, predicted_points, m>>
vars == <<globals, outs, pc, err, args, trainLocals, i, left, predLocals>>

\* The identity of an array object: every evaluation of .copy(), of `+` and of
\* np.array(...) makes a new object, named here by the statement that made it, the
\* sample or image it was made for, and how many were made for it before.
ArrayId(site, k, n) == [site |-> site, k |-> k, n |-> n]

NoFrame ==
    /\ num_regressors = 0 /\ damping_factors = <<>>
    /\ train_images = <<>> /\ train_points = <<>>
    /\ predicted_train_points = <<>> /\ regressors = <<>>
    /\ x_train = <<>> /\ y_train = <<>> /\ model = None
    /\ i = 0 /\ left = {} /\ updates = <<>>
    /\ images = <<>> /\ predictions = <<>> /\ predicted_points = None /\ m = 0

\* lines 43-85: the data is loaded and the prior is computed, once
Init ==
    /\ \E ds \in Datasets :
         /\ train_images_preprocessed = [n \in 1..Len(ds) |-> ds[n].img]
         /\ train_points_resized = [n \in 1..Len(ds) |-> [id |-> ArrayId("train_points", n, 0), val |-> ds[n].pts]]
         /\ average_points = [id |-> ArrayId("average_points", 0, 0), val |-> MeanShape([n \in 1..Len(ds) |-> ds[n].pts])]
    /\ test_images_preprocessed = TestImages
    /\ regressors_out = None /\ predictions_out = None
    /\ pc = "idle" /\ err = "none"
    /\ NoFrame

\* ------------------------------------------------------------ cascaded_regression
\* lines 99-102.  The arguments are prefixes of the loaded data, of any two lengths.
TrainCall ==
    /\ pc = "idle"
    /\ \E S \in 0..MaxStages, d \in DampingSchedules,
          n \in 0..Len(train_images_preprocessed), p \in 0..Len(train_points_resized) :
         /\ num_regressors' = S
         /\ damping_factors' = d
         /\ train_images' = SubSeq(train_images_preprocessed, 1, n)
         /\ train_points' = SubSeq(train_points_resized, 1, p)
         /\ predicted_train_points' = [q \in 1..n |-> None]
         /\ updates' = [q \in 1..n |-> 0]
    /\ regressors' = <<>>
    /\ i' = 0
    /\ pc' = "stage"
    /\ regressors_out' = None /\ predictions_out' = None
    /\ UNCHANGED <<globals, err, x_train, y_train, model, left, predLocals>>

\* lines 104-105: the next stage begins
StageBegin ==
    /\ pc = "stage"
    /\ ~StageLoopDone(i, num_regressors)
    /\ x_train' = <<>> /\ y_train' = <<>>
    /\ left' = 1..Len(train_images)
    /\ pc' = "feat"
    /\ UNCHANGED <<globals, outs, err, args, predicted_train_points, regressors, model,
                   updates, i, predLocals>>

\* lines 108-119 for sample j
FeatStep(j) ==
    /\ pc = "feat"
    /\ j \in left
    /\ LET cur == IF predicted_train_points[j] = None
                  THEN ArrayCopy(average_points, ArrayId("line 112", j, 0))
                  ELSE predicted_train_points[j]
       IN  /\ predicted_train_points' = [predicted_train_points EXCEPT ![j] = cur]
           /\ IF j > Len(train_points) \/ i + 1 > Len(damping_factors)
              THEN /\ pc' = "raised" /\ err' = "IndexError"
                   /\ UNCHANGED <<x_train, y_train, left>>
              ELSE /\ x_train' = Append(x_train, Features(train_images[j], cur.val))
                   /\ y_train' = Append(y_train,
                                        TrainTarget(damping_factors[i + 1], train_points[j].val, cur.val))
                   /\ left' = left \ {j}
                   /\ UNCHANGED <<pc, err>>
    /\ UNCHANGED <<globals, outs, args, regressors, model, updates, i, predLocals>>

\* lines 121-127
FitStep ==
    /\ pc = "feat"
    /\ SampleLoopDone(left)
    /\ IF Len(x_train) = 0
       THEN /\ pc' = "raised" /\ err' = "ValueError"
            /\ UNCHANGED <<model, regressors, left>>
       ELSE /\ model' = Fit(x_train, y_train)
            /\ regressors' = Append(regressors, model')
            /\ left' = 1..Len(train_images)
            /\ pc' = "upd"
            /\ UNCHANGED err
    /\ UNCHANGED <<globals, outs, args, predicted_train_points, x_train, y_train, updates,
                   i, predLocals>>

\* lines 131-138 for sample k
UpdStep(k) ==
    /\ pc = "upd"
    /\ k \in left
    /\ predicted_train_points' =
           [predicted_train_points EXCEPT
               ![k] = [id |-> ArrayId("line 138", k, updates[k]),
                       val |-> UpdatedShape(train_images, predicted_train_points, k, model,
                                            damping_factors[i + 1])]]
    /\ updates' = [updates EXCEPT ![k] = @ + 1]
    /\ left' = left \ {k}
    /\ UNCHANGED <<globals, outs, pc, err, args, regressors, x_train, y_train, model, i,
                   predLocals>>

\* line 130 falls through to line 104
StageEnd ==
    /\ pc = "upd"
    /\ SampleLoopDone(left)
    /\ i' = i + 1
    /\ pc' = "stage"
    /\ UNCHANGED <<globals, outs, err, args, trainLocals, left, predLocals>>

\* line 140, and the assignment of the result at the call site (lines 177, 191)
TrainReturn ==
    /\ pc = "stage"
    /\ StageLoopDone(i, num_regressors)
    /\ regressors_out' = [list |-> regressors]
    /\ pc' = "ret"
    /\ UNCHANGED <<globals, predictions_out, err, args, trainLocals, i, left, predLocals>>

\* ------------------------------------------------------------ regression_predict
\* lines 142-143, called with the regressors the last training returned
PredictCall ==
    /\ pc = "idle"
    /\ regressors_out # None
    /\ \E n \in 0..Len(test_images_preprocessed), d \in DampingSchedules :
         /\ images' = SubSeq(test_images_preprocessed, 1, n)
         /\ damping_factors' = d
    /\ predictions' = <<>>
    /\ m' = 1
    /\ pc' = "pimg"
    /\ predictions_out' = None
    /\ UNCHANGED <<globals, regressors_out, err, num_regressors, train_images, train_points,
                   trainLocals, i, left, predicted_points>>

\* lines 144-145
PredImage ==
    /\ pc = "pimg"
    /\ m <= Len(images)
    /\ predicted_points' = ArrayCopy(average_points, ArrayId("line 145", m, 0))
    /\ i' = 0
    /\ pc' = "pstage"
    /\ UNCHANGED <<globals, outs, err, args, trainLocals, left, images, predictions, m>>

\* lines 147-155
PredStage ==
    /\ pc = "pstage"
    /\ ~StageLoopDone(i, Len(regressors_out.list))
    /\ IF i + 1 > Len(damping_factors)
       THEN /\ pc' = "pred_raised" /\ err' = "IndexError"
            /\ UNCHANGED <<predicted_points, i>>
       ELSE /\ predicted_points' =
                   [id |-> ArrayId("line 155", m, i),
                    val |-> PredictStage(images[m], predicted_points.val,
                                         regressors_out.list[i + 1], damping_factors[i + 1])]
            /\ i' = i + 1
            /\ UNCHANGED <<pc, err>>
    /\ UNCHANGED <<globals, outs, args, trainLocals, left, images, predictions, m>>

\* line 157
PredAppend ==
    /\ pc = "pstage"
    /\ StageLoopDone(i, Len(regressors_out.list))
    /\ predictions' = Append(predictions, predicted_points)
    /\ predicted_points' = None
    /\ m' = m + 1
    /\ pc' = "pimg"
    /\ UNCHANGED <<globals, outs, err, args, trainLocals, i, left, images>>

\* line 159: np.array(predictions) is one new array holding the values
PredReturn ==
    /\ pc = "pimg"
    /\ m > Len(images)
    /\ predictions_out' = [id |-> ArrayId("line 159", 0, 0), val |-> [n \in 1..Len(predictions) |-> predictions[n].val]]
    /\ pc' = "pret"
    /\ UNCHANGED <<globals, regressors_out, err, args, trainLocals, i, left, predLocals>>

\* the call is over: its frame is gone, the module-level names keep the results
Resume ==
    /\ pc \in {"ret", "pret"}
    /\ pc' = "idle"
    /\ num_regressors' = 0 /\ damping_factors' = <<>>
    /\ train_images' = <<>> /\ train_points' = <<>>
    /\ predicted_train_points' = <<>> /\ regressors' = <<>>
    /\ x_train' = <<>> /\ y_train' = <<>> /\ model' = None
    /\ i' = 0 /\ left' = {} /\ updates' = <<>>
    /\ images' = <<>> /\ predictions' = <<>> /\ predicted_points' = None /\ m' = 0
    /\ UNCHANGED <<globals, outs, err>>

\* ------------------------------------------------------------ specifications
\* The code: range() walks the samples in increasing order.
Next ==
    \/ TrainCall
    \/ StageBegin
    \/ \E j \in left : j = NextIndex(left) /\ FeatStep(j)
    \/ FitStep
    \/ \E k \in left : k = NextIndex(left) /\ UpdStep(k)
    \/ StageEnd
    \/ TrainReturn
    \/ PredictCall
    \/ PredImage
    \/ PredStage
    \/ PredAppend
    \/ PredReturn
    \/ Resume

Spec == Init /\ [][Next]_vars

\* The same steps with the samples of a stage handled in any order.
NextAnyOrder ==
    \/ TrainCall
    \/ StageBegin
    \/ \E j \in left : FeatStep(j)
    \/ FitStep
    \/ \E k \in left : UpdStep(k)
    \/ StageEnd
    \/ TrainReturn
    \/ PredictCall
    \/ PredImage
    \/ PredStage
    \/ PredAppend
    \/ PredReturn
    \/ Resume

SpecAnyOrder == Init /\ [][NextAnyOrder]_vars

\* ------------------------------------------------------------ whole-run formulations
\* regression_predict on one image (lines 145-155): the stages in order from the prior
RECURSIVE ReplayFrom(_, _, _, _, _)
ReplayFrom(img, cur, regs, d, k) ==
    IF k > Len(regs) THEN cur
    ELSE Only({ ReplayFrom(img, nxt, regs, d, k + 1) :
                  nxt \in {PredictStage(img, cur, regs[k], d[k])} })

regression_predict_one(img, regs, d) == ReplayFrom(img, average_points.val, regs, d, 1)

\* lines 130-138 with the samples taken in the order 0..N-1
RECURSIVE SeqUpdate(_, _, _, _, _)
SeqUpdate(imgs, shapes, k, mdl, d) ==
    IF k > Len(shapes) THEN shapes
    ELSE Only({ SeqUpdate(imgs, [shapes EXCEPT ![k] = [id |-> @.id, val |-> new]], k + 1, mdl, d) :
                  new \in {UpdatedShape(imgs, shapes, k, mdl, d)} })

\* lines 104-138 for the stages st..S-1, the samples taken in the order 0..N-1;
\* gives the shapes and the regressors after the last stage
RECURSIVE SeqStages(_, _, _, _, _, _, _)
SeqStages(imgs, gts, d, shapes, regs, st, S) ==
    IF st >= S THEN [shapes |-> shapes, regressors |-> regs]
    ELSE Only({ Only({ SeqStages(imgs, gts, d, upd, Append(regs, mdl), st + 1, S) :
                         upd \in {SeqUpdate(imgs, shapes, 1, mdl, d[st + 1])} }) :
                  mdl \in {Fit([j \in 1..Len(imgs) |-> Features(imgs[j], shapes[j].val)],
                               [j \in 1..Len(imgs) |->
                                   TrainTarget(d[st + 1], gts[j].val, shapes[j].val)])} })

cascaded_regression_seq(S, d, imgs, gts) ==
    SeqStages(imgs, gts, d, [j \in 1..Len(imgs) |-> average_points], <<>>, 0, S)

\* ============================================================ claims
Samples == 1..Len(train_images)
InTraining == pc \in {"stage", "feat", "upd", "ret", "raised"}
Initialised(j) == predicted_train_points[j] # None
Landmarks(shape) == 1..Len(shape)
\* the sum of coordinate c of landmark k over a sequence of array objects
CoordSum(objs, k, c) == RSum([n \in 1..Len(objs) |-> objs[n].val[k][c]])
\* the regressor reproduces every target of the batch it was fitted on
Reproduces == \A r \in 1..Len(x_train) : Predict(model, x_train[r]) = y_train[r]

\* C1: when a training run of S >= 1 stages returns, the shape it holds for every
\* training sample j equals what the replay of regression_predict gives for image j
\* with the returned regressors and the same damping schedule.
C1_PredictionReplaysTraining ==
    (pc = "ret" /\ num_regressors >= 1) =>
        \A j \in Samples :
            /\ Initialised(j)
            /\ predicted_train_points[j].val =
                   regression_predict_one(train_images[j], regressors_out.list, damping_factors)

C1_Witness ==
    /\ pc = "ret" /\ num_regressors = 2 /\ Len(train_images) = 2
    /\ damping_factors[1] # damping_factors[2]
    /\ predicted_train_points[1].val # average_points.val
    /\ predicted_train_points[1].val # predicted_train_points[2].val

\* C2: the target of every sample at stage i is d[i] * (ground truth - current
\* shape); the stage-0 update adds d[0] * (regressor output) to the prior; and a
\* single-stage run whose regressor reproduces its targets ends with every shape
\* at prior + d*d*(ground truth - prior).
C2_DampingAppliedTwice ==
    /\ (pc = "feat" /\ left = {}) =>
          \A j \in Samples : \A k \in Landmarks(average_points.val) : \A c \in 1..2 :
              y_train[j][2 * (k - 1) + c] =
                  RMul(damping_factors[i + 1],
                       RSub(train_points[j].val[k][c], predicted_train_points[j].val[k][c]))
    /\ (pc = "upd" /\ i = 0) =>
          \A j \in Samples \ left : \A k \in Landmarks(average_points.val) : \A c \in 1..2 :
              predicted_train_points[j].val[k][c] =
                  RAdd(average_points.val[k][c],
                       RMul(damping_factors[1],
                            Predict(model, Features(train_images[j], average_points.val))[2 * (k - 1) + c]))
    /\ (pc = "ret" /\ num_regressors = 1 /\ Reproduces) =>
          \A j \in Samples : \A k \in Landmarks(average_points.val) : \A c \in 1..2 :
              predicted_train_points[j].val[k][c] =
                  RAdd(average_points.val[k][c],
                       RMul(RMul(damping_factors[1], damping_factors[1]),
                            RSub(train_points[j].val[k][c], average_points.val[k][c])))

C2_Witness ==
    /\ pc = "ret" /\ num_regressors = 1 /\ Reproduces
    /\ Len(train_images) = 2
    /\ damping_factors[1] = <<1, 2>>
    /\ train_points[1].val # average_points.val
    /\ predicted_train_points[1].val # average_points.val

C4_ZeroStages ==
    /\ (InTraining /\ num_regressors = 0) => pc \in {"stage", "ret"}
    /\ (pc = "ret" /\ num_regressors = 0) => (err = "none" /\ regressors_out = [list |-> <<>>])
    /\ (pc = "pret" /\ regressors_out.list = <<>>) =>
          /\ Len(predictions_out.val) = Len(images)
          /\ \A n \in 1..Len(images) : predictions_out.val[n] = average_points.val

C4_Witness ==
    /\ pc = "pret" /\ regressors_out.list = <<>>
    /\ Len(images) = 2 /\ Len(predictions_out.val) = 2

\* C5: a call hands its caller either the S regressors, stage k's in place k, or
\* nothing: nothing is bound while the call runs or after it has raised, and a
\* return happens only with exactly num_regressors regressors.
C5_AllOrNothing ==
    /\ (pc \in {"stage", "feat", "upd", "raised"}) => regressors_out = None
    /\ pc = "raised" => err # "none"
    /\ pc = "upd" => (Len(regressors) = i + 1 /\ regressors[i + 1] = model)
    /\ pc = "ret" =>
          /\ err = "none"
          /\ regressors_out = [list |-> regressors]
          /\ Len(regressors) = num_regressors

C5_Witness ==
    /\ pc = "raised" /\ i = 1 /\ Len(regressors) = 1 /\ regressors_out = None

\* C6 as claimed: no stage is fitted, no training returns and no prediction runs
\* with a damping schedule whose length differs from the number of stages.
C6_ScheduleLengthEnforced ==
    /\ (pc \in {"upd", "ret"}) => Len(damping_factors) = num_regressors
    /\ (pc \in {"pstage", "pret"}) => Len(damping_factors) = Len(regressors_out.list)

\* C7 as claimed: training returns a cascade only for a non-empty training set
\* whose images and ground-truth shapes are equally many.
C7_SampleSetEnforced ==
    pc = "ret" => (Len(train_images) = Len(train_points) /\ Len(train_images) >= 1)

\* C8: a stage is fitted on the features and targets of all N samples, taken at the
\* shapes left by the previous stage; within a stage no shape moves before the fit;
\* a sample has received exactly i updates when stage i begins and i+1 once stage i
\* has updated it; a sample is set to the prior at stage 0 only.
C8_StageBarrier ==
    /\ (pc \in {"stage", "feat"}) => \A j \in Samples : updates[j] = i
    /\ pc = "feat" =>
          /\ Len(x_train) = Len(y_train)
          /\ \A r \in 1..Len(x_train) :
                /\ x_train[r] = Features(train_images[r], predicted_train_points[r].val)
                /\ y_train[r] = TrainTarget(damping_factors[i + 1], train_points[r].val,
                                            predicted_train_points[r].val)
    /\ pc = "upd" =>
          /\ Len(x_train) = Len(train_images) /\ Len(y_train) = Len(train_images)
          /\ model = Fit(x_train, y_train)
          /\ \A j \in Samples : updates[j] = IF j \in left THEN i ELSE i + 1
    /\ pc = "ret" => \A j \in Samples : updates[j] = num_regressors
    /\ InTraining =>
          \A j \in Samples :
              /\ ~Initialised(j) => i = 0
              /\ (Initialised(j) /\ updates[j] = 0) =>
                     predicted_train_points[j].val = average_points.val

C8_Witness ==
    /\ pc = "upd" /\ i = 1 /\ Len(train_images) = 2 /\ left = {2}
    /\ updates = <<2, 1>>
    /\ x_train[1] # x_train[2]

\* C9: the prior and the ground-truth shapes never change, and a working shape is
\* never the prior's array, a ground-truth array or another working shape's array.
ReadOnlyIds == {average_points.id} \cup { train_points_resized[n].id : n \in 1..Len(train_points_resized) }
C9_NoAlias ==
    /\ \A j \in 1..Len(predicted_train_points) : Initialised(j) =>
          /\ predicted_train_points[j].id \notin ReadOnlyIds
          /\ \A q \in 1..Len(predicted_train_points) :
                (q # j /\ Initialised(q)) => predicted_train_points[q].id # predicted_train_points[j].id
    /\ \A n \in 1..Len(predictions) :
          /\ predictions[n].id \notin ReadOnlyIds
          /\ \A q \in 1..Len(predictions) : q # n => predictions[q].id # predictions[n].id
          /\ predicted_points # None => predicted_points.id # predictions[n].id
    /\ predicted_points # None => predicted_points.id \notin ReadOnlyIds
    /\ predictions_out # None => predictions_out.id \notin ReadOnlyIds

C9_PriorAndGroundTruthReadOnly ==
    /\ []C9_NoAlias
    /\ [][average_points' = average_points /\ train_points_resized' = train_points_resized]_vars

C9_Witness ==
    /\ pc = "pstage" /\ m = 2 /\ i = 1 /\ Len(predictions) = 1
    /\ predicted_points.val # average_points.val

====
